---------------------------- MODULE Spec2Model ----------------------------
(***************************************************************************)
(* A model of the ioat crate (src/src/lib.rs): the ReadAt / WriteAt traits, *)
(* their default read_exact_at / write_all_at loops, the in-memory buffer   *)
(* adapters (&[u8], [u8], Vec<u8>, Box<[u8]>), the Sink adapter and the     *)
(* AssertThreadSafe seek-then-operate wrapper.                              *)
(*                                                                          *)
(* Three groups of state, one specification each:                           *)
(*   Spec      the in-memory buffer adapters, one positional call per step  *)
(*   SpecLoop  one call of a default loop, one loop iteration per step      *)
(*   SpecSeq / SpecConc  AssertThreadSafe over a shared seekable resource,  *)
(*             with one accessor / with two concurrent accessors            *)
(***************************************************************************)
EXTENDS Integers, Sequences, FiniteSets, TLC

(***************************************************************************)
(* Bounds.  PosBits scales the width of the u64 offset (and of usize, a    *)
(* 64-bit target) down to a few bits, so that the ends of the range are     *)
(* reached; all offset arithmetic is done at that width.                    *)
(***************************************************************************)
PosBits == 3
MaxLen == 4
MaxBuf == 3
MaxIntr == 2
MaxSeekPos == 3
MaxCalls == 2
MaxSeekBuf == 2

PosMod == 2 ^ PosBits
\* u64::max_value(), scaled
PosMax == PosMod - 1
\* usize::max_value() (lib.rs:259), scaled: usize is as wide as u64
UsizeMax == PosMax
\* isize::max_value(), the largest capacity a Vec may reserve
IsizeMax == (PosMod \div 2) - 1

Offsets == 0 .. PosMax
Min(a, b) == IF a < b THEN a ELSE b

\* The byte every caller-supplied write buffer is filled with, and the
\* byte a caller's read buffer holds before the call.
DataByte == 9
BlankByte == 0

Fill(n, b) == [k \in 1 .. n |-> b]
Iota(n) == [k \in 1 .. n |-> k]

VARIABLES
    overflowChecks,   \* build mode: TRUE = arithmetic overflow panics (debug)
    adapter,          \* Spec: "slice" | "vec" | "box"
    mem,              \* Spec: the bytes of the in-memory resource
    call,             \* Spec: the last call, [op, pos, arg]
    out,              \* Spec: the caller's read buffer after the call
    ret,              \* Spec: the last call's result
    lp,               \* SpecLoop: the running default loop
    dev,              \* SpecLoop: the resource under the loop, offset -> byte
    log,              \* SpecLoop: the read_at / write_at steps issued so far
    content,          \* SpecSeq/SpecConc: bytes of the seekable resource
    cursor,           \* SpecSeq/SpecConc: its shared cursor
    th,               \* SpecSeq/SpecConc: per accessor, the call in flight
    lastSeek          \* SpecSeq/SpecConc: accessor whose seek set the cursor

bufVars == <<adapter, mem, call, out, ret>>
loopVars == <<lp, dev, log>>
seekVars == <<content, cursor, th, lastSeek>>
vars == <<overflowChecks, bufVars, loopVars, seekVars>>

(***************************************************************************)
(* io::Result values.  A panic is not a Result; it is kept as a third tag  *)
(* so that an aborted call is visible as the outcome of the call.           *)
(***************************************************************************)
Ok(n) == [tag |-> "Ok", n |-> n, kind |-> "-"]
Err(k) == [tag |-> "Err", n |-> 0, kind |-> k]
Panic(why) == [tag |-> "Panic", n |-> 0, kind |-> why]
NoResult == [tag |-> "None", n |-> 0, kind |-> "-"]

\* self[i..]
SliceFrom(s, i) == SubSeq(s, i + 1, Len(s))
\* self[..i]
SliceTo(s, i) == SubSeq(s, 1, i)

\* <[u8]>::copy_from_slice: panics unless both slices have the same length
CopyFromSlice(dst, src) ==
    IF Len(dst) = Len(src)
    THEN [ok |-> TRUE, dst |-> src]
    ELSE [ok |-> FALSE, dst |-> dst]

(***************************************************************************)
(* impl ReadAt for &[u8]                                                    *)
(***************************************************************************)
Slice_read_at(self, pos, buf) ==
    IF pos >= Len(self)
    THEN [ret |-> Ok(0), buf |-> buf]
    ELSE LET i == pos
             c == CopyFromSlice(buf, SliceFrom(self, i))
         IN  IF c.ok
             THEN [ret |-> Ok(Min(Len(self) - i, Len(buf))), buf |-> c.dst]
             ELSE [ret |-> Panic("copy_from_slice"), buf |-> buf]

Slice_read_exact_at(self, pos, buf) ==
    LET r == Slice_read_at(self, pos, buf)
    IN  IF r.ret.tag # "Ok"
        THEN r
        ELSE IF r.ret.n < Len(buf)
             THEN [ret |-> Err("UnexpectedEof"), buf |-> r.buf]
             ELSE [ret |-> Ok(0), buf |-> r.buf]

(***************************************************************************)
(* impl WriteAt for [u8]                                                    *)
(***************************************************************************)
Slice_write_at(self, pos, buf) ==
    IF pos >= Len(self)
    THEN [ret |-> Ok(0), mem |-> self]
    ELSE LET i == pos
             c == CopyFromSlice(SliceFrom(self, i), buf)
         IN  IF c.ok
             THEN [ret |-> Ok(Min(Len(self) - i, Len(buf))),
                   mem |-> SliceTo(self, i) \o c.dst]
             ELSE [ret |-> Panic("copy_from_slice"), mem |-> self]

Slice_write_all_at(self, pos, buf) ==
    LET r == Slice_write_at(self, pos, buf)
    IN  IF r.ret.tag # "Ok"
        THEN r
        ELSE IF r.ret.n < Len(buf)
             THEN [ret |-> Err("UnexpectedEof"), mem |-> r.mem]
             ELSE [ret |-> Ok(0), mem |-> r.mem]

(***************************************************************************)
(* impl WriteAt for Vec<u8>                                                 *)
(***************************************************************************)
\* Vec::reserve(additional) on a vector of length len whose capacity is
\* its length: panics when len + additional overflows usize or exceeds
\* isize::MAX; it never changes the length.
VecReserve(len, additional) ==
    additional = 0 \/ len + additional <= IsizeMax

Vec_write_at(self, pos, buf, checks) ==
    IF pos >= UsizeMax
    THEN [ret |-> Ok(0), mem |-> self]
    ELSE LET i == pos
             underflow == i >= Len(self) /\ Len(self) < i
             needed == (Len(self) - i) % PosMod
             c == CopyFromSlice(SliceFrom(self, i), buf)
         IN  IF underflow /\ checks
             THEN [ret |-> Panic("subtract with overflow"), mem |-> self]
             ELSE IF i >= Len(self) /\ ~VecReserve(Len(self), needed)
             THEN [ret |-> Panic("capacity overflow"), mem |-> self]
             ELSE IF i > Len(self)
             THEN [ret |-> Panic("slice index"), mem |-> self]
             ELSE IF c.ok
             THEN [ret |-> Ok(Min(Len(self) - i, Len(buf))),
                   mem |-> SliceTo(self, i) \o c.dst]
             ELSE [ret |-> Panic("copy_from_slice"), mem |-> self]

Vec_write_all_at(self, pos, buf, checks) ==
    LET r == Vec_write_at(self, pos, buf, checks)
    IN  IF r.ret.tag # "Ok"
        THEN r
        ELSE IF r.ret.n < Len(buf)
             THEN [ret |-> Err("UnexpectedEof"), mem |-> r.mem]
             ELSE [ret |-> Ok(0), mem |-> r.mem]

(***************************************************************************)
(* Dispatch on the adapter: Vec<u8> and Box<[u8]> read through &self[..],  *)
(* Box<[u8]> writes through &mut self[..].                                  *)
(***************************************************************************)
Adapters == {"slice", "vec", "box"}

read_at(a, self, pos, buf) == Slice_read_at(self, pos, buf)

read_exact_at(a, self, pos, buf) == Slice_read_exact_at(self, pos, buf)

write_at(a, self, pos, buf, checks) ==
    IF a = "vec"
    THEN Vec_write_at(self, pos, buf, checks)
    ELSE Slice_write_at(self, pos, buf)

write_all_at(a, self, pos, buf, checks) ==
    IF a = "vec"
    THEN Vec_write_all_at(self, pos, buf, checks)
    ELSE Slice_write_all_at(self, pos, buf)

NoCall == [op |-> "none", pos |-> 0, arg |-> <<>>, before |-> <<>>]

IdleLoop ==
    [pc |-> "idle", op |-> "-", imp |-> "-", start |-> 0, pos |-> 0,
     buf |-> <<>>, off |-> 0, intr |-> 0, ret |-> NoResult]
IdleCall ==
    [pc |-> "idle", op |-> "-", pos |-> 0, buf |-> <<>>, ret |-> NoResult,
     out |-> <<>>, pre |-> <<>>, was |-> 0, at |-> 0, calls |-> 0]
IdleSeek == <<>>

InitBuf ==
    /\ adapter \in Adapters
    /\ \E n \in 0 .. MaxLen : mem = Iota(n)
    /\ call = NoCall
    /\ out = <<>>
    /\ ret = NoResult

\* A panic unwinds out of the caller: no further call is made.
Running == ret.tag # "Panic"

ReadAt ==
    /\ Running
    /\ \E pos \in Offsets, n \in 0 .. MaxBuf :
          LET r == read_at(adapter, mem, pos, Fill(n, BlankByte))
          IN  /\ call' = [op |-> "read_at", pos |-> pos,
                          arg |-> Fill(n, BlankByte), before |-> mem]
              /\ out' = r.buf
              /\ ret' = r.ret
    /\ UNCHANGED <<adapter, mem>>

ReadExactAt ==
    /\ Running
    /\ \E pos \in Offsets, n \in 0 .. MaxBuf :
          LET r == read_exact_at(adapter, mem, pos, Fill(n, BlankByte))
          IN  /\ call' = [op |-> "read_exact_at", pos |-> pos,
                          arg |-> Fill(n, BlankByte), before |-> mem]
              /\ out' = r.buf
              /\ ret' = r.ret
    /\ UNCHANGED <<adapter, mem>>

WriteAt ==
    /\ Running
    /\ \E pos \in Offsets, n \in 0 .. MaxBuf :
          LET r == write_at(adapter, mem, pos, Fill(n, DataByte), overflowChecks)
          IN  /\ call' = [op |-> "write_at", pos |-> pos,
                          arg |-> Fill(n, DataByte), before |-> mem]
              /\ mem' = r.mem
              /\ ret' = r.ret
    /\ UNCHANGED <<adapter, out>>

WriteAllAt ==
    /\ Running
    /\ \E pos \in Offsets, n \in 0 .. MaxBuf :
          LET r == write_all_at(adapter, mem, pos, Fill(n, DataByte), overflowChecks)
          IN  /\ call' = [op |-> "write_all_at", pos |-> pos,
                          arg |-> Fill(n, DataByte), before |-> mem]
              /\ mem' = r.mem
              /\ ret' = r.ret
    /\ UNCHANGED <<adapter, out>>

Init ==
    /\ overflowChecks \in BOOLEAN
    /\ InitBuf
    /\ lp = IdleLoop
    /\ dev = <<>>
    /\ log = <<>>
    /\ content = <<>>
    /\ cursor = 0
    /\ th = IdleSeek
    /\ lastSeek = 0

Next ==
    \/ ReadAt /\ UNCHANGED <<overflowChecks, loopVars, seekVars>>
    \/ ReadExactAt /\ UNCHANGED <<overflowChecks, loopVars, seekVars>>
    \/ WriteAt /\ UNCHANGED <<overflowChecks, loopVars, seekVars>>
    \/ WriteAllAt /\ UNCHANGED <<overflowChecks, loopVars, seekVars>>

Spec == Init /\ [][Next]_vars


(***************************************************************************)
(* The default loops, ReadAt::read_exact_at and WriteAt::write_all_at.     *)
(* The loop's `buf` is a slice of the caller's buffer: lp.buf is the whole *)
(* buffer and lp.off the index at which the remaining slice starts.         *)
(* The implementors under the loop: "sink" (io::Sink), "empty" (io::Empty), *)
(* "repeat" (io::Repeat) and "dev", any implementor of read_at / write_at   *)
(* that keeps the documented contract 0 <= n <= buf.len().                  *)
(***************************************************************************)
RepeatByte == 7
ErrorKinds == {"Interrupted", "PermissionDenied", "Other"}

\* The bytes under the generic implementor before the call, and the data
\* a caller writes: pairwise distinct, so that a displaced byte shows.
DevInit == [o \in Offsets |-> 20 + o]
WriteData(n) == [k \in 1 .. n |-> 10 + k]

Rest(l) == SliceFrom(l.buf, l.off)

DevWrite(d, pos, bytes) ==
    [o \in Offsets |->
        IF o >= pos /\ o < pos + Len(bytes) THEN bytes[o - pos + 1] ELSE d[o]]
DevRead(d, pos, n) == [k \in 1 .. n |-> d[pos + k - 1]]

\* What one read_at / write_at call on the implementor may return for a
\* non-empty buf.  The generic implementor holds bytes at offsets up to
\* u64::MAX only; interruptions are bounded by MaxIntr.
Sink_write_at(pos, buf) == Ok(Len(buf))
Empty_read_at(pos, buf) == Ok(0)
Repeat_read_at(pos, buf) == Ok(Len(buf))
Dev_outcomes(pos, buf, intr) ==
    {Ok(n) : n \in 0 .. Min(Len(buf), PosMod - pos)}
        \cup {Err(k) : k \in IF intr < MaxIntr THEN ErrorKinds
                              ELSE ErrorKinds \ {"Interrupted"}}

Outcomes(l) ==
    CASE l.imp = "sink" -> {Sink_write_at(l.pos, Rest(l))}
      [] l.imp = "empty" -> {Empty_read_at(l.pos, Rest(l))}
      [] l.imp = "repeat" -> {Repeat_read_at(l.pos, Rest(l))}
      [] OTHER -> Dev_outcomes(l.pos, Rest(l), l.intr)

\* buf = &buf[n..]; pos += n as u64;  the addition panics on overflow in
\* a build with overflow checks and wraps in one without.
Advance(l, n, checks) ==
    IF l.pos + n > PosMax /\ checks
    THEN [l EXCEPT !.off = @ + n, !.pc = "done",
                   !.ret = Panic("add with overflow")]
    ELSE [l EXCEPT !.off = @ + n, !.pos = (@ + n) % PosMod]

\* A write_all_at that retries after every error, not only Interrupted
RetryEveryError_write_all_at(l, r, checks) ==
    IF r = Ok(0)
    THEN [l EXCEPT !.pc = "done", !.ret = Err("WriteZero")]
    ELSE IF r.tag = "Ok"
    THEN Advance(l, r.n, checks)
    ELSE [l EXCEPT !.intr = @ + 1]

\* The match of write_all_at on the result r of self.write_at(pos, buf)
Default_write_all_at(l, r, checks) ==
    IF r = Ok(0)
    THEN [l EXCEPT !.pc = "done", !.ret = Err("WriteZero")]
    ELSE IF r.tag = "Ok"
    THEN Advance(l, r.n, checks)
    ELSE IF r = Err("Interrupted")
    THEN [l EXCEPT !.intr = @ + 1]
    ELSE [l EXCEPT !.pc = "done", !.ret = r]

\* The match of read_exact_at on the result r of self.read_at(pos, buf);
\* Ok(0) breaks out of the loop with buf not empty.
Default_read_exact_at(l, r, checks) ==
    IF r = Ok(0)
    THEN [l EXCEPT !.pc = "done", !.ret = Err("UnexpectedEof")]
    ELSE IF r.tag = "Ok"
    THEN Advance(l, r.n, checks)
    ELSE IF r = Err("Interrupted")
    THEN [l EXCEPT !.intr = @ + 1]
    ELSE [l EXCEPT !.pc = "done", !.ret = r]

\* What the implementor does to the resource / to the caller's buffer
\* when its call returns r.
WriteEffect(l, r, d) ==
    IF l.imp = "dev" /\ r.tag = "Ok"
    THEN DevWrite(d, l.pos, SliceTo(Rest(l), r.n))
    ELSE d
ReadEffect(l, r, d) ==
    IF r.tag # "Ok"
    THEN l.buf
    ELSE SliceTo(l.buf, l.off)
            \o (IF l.imp = "repeat" THEN Fill(r.n, RepeatByte)
                                    ELSE DevRead(d, l.pos, r.n))
            \o SliceFrom(l.buf, l.off + r.n)

StepRecord(l, r) ==
    [pos |-> l.pos, off |-> l.off, len |-> Len(Rest(l)), res |-> r]

CallWriteAllAt ==
    /\ lp.pc = "idle"
    /\ \E imp \in {"dev", "sink"}, pos \in Offsets, n \in 0 .. MaxBuf :
          lp' = [IdleLoop EXCEPT !.pc = "loop", !.op = "write_all_at",
                                 !.imp = imp, !.start = pos, !.pos = pos,
                                 !.buf = WriteData(n)]
    /\ UNCHANGED <<dev, log>>

CallReadExactAt ==
    /\ lp.pc = "idle"
    /\ \E imp \in {"dev", "empty", "repeat"}, pos \in Offsets, n \in 0 .. MaxBuf :
          lp' = [IdleLoop EXCEPT !.pc = "loop", !.op = "read_exact_at",
                                 !.imp = imp, !.start = pos, !.pos = pos,
                                 !.buf = Fill(n, BlankByte)]
    /\ UNCHANGED <<dev, log>>

\* One iteration of `while !buf.is_empty() { match self.write_at(pos, buf) .. }`
WriteStep ==
    /\ lp.pc = "loop"
    /\ lp.op = "write_all_at"
    /\ Rest(lp) # <<>>
    /\ \E r \in Outcomes(lp) :
          /\ dev' = WriteEffect(lp, r, dev)
          /\ log' = Append(log, StepRecord(lp, r))
          /\ lp' = Default_write_all_at(lp, r, overflowChecks)

\* One iteration of `while !buf.is_empty() { match self.read_at(pos, buf) .. }`
ReadStep ==
    /\ lp.pc = "loop"
    /\ lp.op = "read_exact_at"
    /\ Rest(lp) # <<>>
    /\ \E r \in Outcomes(lp) :
          /\ log' = Append(log, StepRecord(lp, r))
          /\ lp' = [Default_read_exact_at(lp, r, overflowChecks)
                       EXCEPT !.buf = ReadEffect(lp, r, dev)]
    /\ UNCHANGED dev

\* The loop condition fails: buf is empty, both loops return Ok(()).
LoopExit ==
    /\ lp.pc = "loop"
    /\ Rest(lp) = <<>>
    /\ lp' = [lp EXCEPT !.pc = "done", !.ret = Ok(0)]
    /\ UNCHANGED <<dev, log>>

InitLoop ==
    /\ overflowChecks \in BOOLEAN
    /\ lp = IdleLoop
    /\ dev = DevInit
    /\ log = <<>>
    /\ adapter = "slice"
    /\ mem = <<>>
    /\ call = NoCall
    /\ out = <<>>
    /\ ret = NoResult
    /\ content = <<>>
    /\ cursor = 0
    /\ th = IdleSeek
    /\ lastSeek = 0

NextLoop ==
    \/ CallWriteAllAt /\ UNCHANGED <<overflowChecks, bufVars, seekVars>>
    \/ CallReadExactAt /\ UNCHANGED <<overflowChecks, bufVars, seekVars>>
    \/ WriteStep /\ UNCHANGED <<overflowChecks, bufVars, seekVars>>
    \/ ReadStep /\ UNCHANGED <<overflowChecks, bufVars, seekVars>>
    \/ LoopExit /\ UNCHANGED <<overflowChecks, bufVars, seekVars>>

SpecLoop == InitLoop /\ [][NextLoop]_vars

(***************************************************************************)
(* AssertThreadSafe<T>, T: Read + Write + Seek.  The wrapped value is a    *)
(* byte resource with one cursor (a File, a Cursor): seek moves the cursor, *)
(* read and write act at the cursor and advance it.  Each positional call   *)
(* is two steps on the wrapped value, the seek and then the read or write;  *)
(* an accessor is a caller holding the wrapped value.                       *)
(***************************************************************************)
SeekOffsets == 0 .. MaxSeekPos
ContentInit == <<31, 32, 33>>

\* A seek relative to the cursor, SeekFrom::Current(pos)
SeekFromCurrent(cur, pos) == cur + pos

\* T::seek(SeekFrom::Start(pos)): the new cursor
SeekFromStart(cur, pos) == pos

\* T::read(buf) at the cursor: the counts it may return, and the buffer
\* after it returned n
ReadCounts(cont, cur, buf) ==
    IF Len(buf) = 0 \/ cur >= Len(cont)
    THEN {0}
    ELSE 1 .. Min(Len(buf), Len(cont) - cur)
Inner_read(cont, cur, buf, n) ==
    SubSeq(cont, cur + 1, cur + n) \o SliceFrom(buf, n)

\* T::write(buf) at the cursor: the counts it may return, and the content
\* after `bytes` were written (a write past the end fills the gap with 0)
WriteCounts(buf) == IF Len(buf) = 0 THEN {0} ELSE 1 .. Len(buf)
Inner_write(cont, cur, bytes) ==
    LET padded == IF cur > Len(cont)
                  THEN cont \o Fill(cur - Len(cont), 0)
                  ELSE cont
    IN  SliceTo(padded, cur) \o bytes \o SliceFrom(padded, cur + Len(bytes))

\* The calls issued so far by the accessors in S; the model stops issuing
\* calls after MaxCalls of them.
RECURSIVE CallsOf(_)
CallsOf(S) ==
    IF S = {} THEN 0
    ELSE LET t == CHOOSE x \in S : TRUE IN th[t].calls + CallsOf(S \ {t})

CanCall(t) == th[t].pc \in {"idle", "done"} /\ CallsOf(DOMAIN th) < MaxCalls

\* The first step of a call that holds a lock until its second step: no
\* seek while another accessor is between its seek and its operation.
Locked_seek(t) ==
    /\ CanCall(t)
    /\ \A u \in DOMAIN th : th[u].pc # "seeked"
    /\ \E op \in {"read_at", "write_at"}, pos \in SeekOffsets, n \in 0 .. MaxSeekBuf :
          /\ cursor' = SeekFromStart(cursor, pos)
          /\ lastSeek' = t
          /\ th' = [th EXCEPT ![t] =
                       [IdleCall EXCEPT
                           !.pc = "seeked", !.op = op, !.pos = pos,
                           !.buf = IF op = "read_at" THEN Fill(n, BlankByte)
                                                     ELSE WriteData(n),
                           !.pre = content, !.was = cursor,
                           !.calls = th[t].calls + 1]]
    /\ UNCHANGED content

\* try!(self.0.seek(SeekFrom::Start(pos))): the first step of read_at and
\* of write_at.  A failed seek returns from the call.
ATS_seek(t) ==
    /\ CanCall(t)
    /\ \E op \in {"read_at", "write_at"}, pos \in SeekOffsets, n \in 0 .. MaxSeekBuf,
          ok \in BOOLEAN :
          LET c == [IdleCall EXCEPT
                       !.op = op, !.pos = pos,
                       !.buf = IF op = "read_at" THEN Fill(n, BlankByte)
                                                 ELSE WriteData(n),
                       !.pre = content, !.was = cursor,
                       !.calls = th[t].calls + 1]
          IN  IF ok
              THEN /\ cursor' = SeekFromStart(cursor, pos)
                   /\ lastSeek' = t
                   /\ th' = [th EXCEPT ![t] = [c EXCEPT !.pc = "seeked"]]
              ELSE /\ th' = [th EXCEPT ![t] =
                                [c EXCEPT !.pc = "done", !.ret = Err("Other")]]
                   /\ UNCHANGED <<cursor, lastSeek>>
    /\ UNCHANGED content

\* self.0.read(buf): the second step of read_at
ATS_read(t) ==
    /\ th[t].pc = "seeked"
    /\ th[t].op = "read_at"
    /\ \E n \in ReadCounts(content, cursor, th[t].buf) :
          /\ th' = [th EXCEPT ![t].pc = "done", ![t].ret = Ok(n),
                              ![t].at = cursor,
                              ![t].out = Inner_read(content, cursor, th[t].buf, n)]
          /\ cursor' = cursor + n
    /\ UNCHANGED <<content, lastSeek>>

\* self.0.write(buf): the second step of write_at
ATS_write(t) ==
    /\ th[t].pc = "seeked"
    /\ th[t].op = "write_at"
    /\ \E n \in WriteCounts(th[t].buf) :
          /\ th' = [th EXCEPT ![t].pc = "done", ![t].ret = Ok(n),
                              ![t].at = cursor]
          /\ content' = IF n = 0 THEN content
                        ELSE Inner_write(content, cursor, SliceTo(th[t].buf, n))
          /\ cursor' = cursor + n
    /\ UNCHANGED lastSeek

InitSeek(accessors) ==
    /\ overflowChecks = FALSE
    /\ content = ContentInit
    /\ cursor = 0
    /\ th = [t \in accessors |-> IdleCall]
    /\ lastSeek = 0
    /\ lp = IdleLoop
    /\ dev = <<>>
    /\ log = <<>>
    /\ adapter = "slice"
    /\ mem = <<>>
    /\ call = NoCall
    /\ out = <<>>
    /\ ret = NoResult

\* The steps of AssertThreadSafe touch the wrapped value only.
SeekFrame == UNCHANGED <<overflowChecks, bufVars, loopVars>>

NextSeek ==
    \/ \E t \in DOMAIN th : ATS_seek(t) /\ SeekFrame
    \/ \E t \in DOMAIN th : ATS_read(t) /\ SeekFrame
    \/ \E t \in DOMAIN th : ATS_write(t) /\ SeekFrame

\* One accessor: the calls are issued one after another.
SpecSeq == InitSeek({1}) /\ [][NextSeek]_vars
\* Two accessors share the wrapped value; their steps interleave.
SpecConc == InitSeek({1, 2}) /\ [][NextSeek]_vars

(***************************************************************************)
(* The properties of the in-memory buffer adapters.                         *)
(***************************************************************************)
\* The count the buffer adapters are documented to transfer at pos.
Available(before, pos) == IF pos >= Len(before) THEN 0 ELSE Len(before) - pos
ExpectedCount(before, pos, arg) == Min(Available(before, pos), Len(arg))

\* C1: read_at on &[u8], Vec<u8> and Box<[u8]> never fails, whatever the
\* offset and the buffer length: it returns min(len - pos, len(buf)) (0 at
\* or past the end) and leaves exactly those bytes of the resource, taken
\* from pos, at the front of buf.
C1_ReadAtTotal ==
    call.op = "read_at" =>
        LET n == ExpectedCount(call.before, call.pos, call.arg)
        IN  /\ ret = Ok(n)
            /\ out = SubSeq(call.before, call.pos + 1, call.pos + n)
                        \o SliceFrom(call.arg, n)

\* C2: write_at on a fixed-capacity buffer ([u8], Box<[u8]>) never fails:
\* it overwrites min(len - pos, len(data)) bytes at pos with the front of
\* data, returns that count, and changes neither the other bytes nor the
\* length.
C2_FixedWriteAtTruncates ==
    (call.op = "write_at" /\ adapter \in {"slice", "box"}) =>
        LET n == ExpectedCount(call.before, call.pos, call.arg)
        IN  /\ ret = Ok(n)
            /\ Len(mem) = Len(call.before)
            /\ mem = SliceTo(call.before, Min(call.pos, Len(call.before)))
                        \o SliceTo(call.arg, n)
                        \o SliceFrom(call.before, Min(call.pos, Len(call.before)) + n)

\* C3: write_at on Vec<u8> with pos + len(data) beyond the current length
\* (pos below the platform's size limit) extends the vector to
\* pos + len(data), copies all of data at pos and returns len(data); the
\* bytes before pos are unchanged.
C3_VecWriteAtGrows ==
    (/\ call.op = "write_at"
     /\ adapter = "vec"
     /\ call.pos < UsizeMax
     /\ call.pos + Len(call.arg) > Len(call.before)) =>
        /\ ret = Ok(Len(call.arg))
        /\ Len(mem) = call.pos + Len(call.arg)
        /\ SliceFrom(mem, call.pos) = call.arg
        /\ SliceTo(mem, Min(call.pos, Len(call.before)))
              = SliceTo(call.before, Min(call.pos, Len(call.before)))

\* C4: read_exact_at on a buffer adapter with len(buf) > len - pos returns
\* an error of kind UnexpectedEof; it neither succeeds nor aborts.
C4_ReadExactPastEndIsEof ==
    (/\ call.op = "read_exact_at"
     /\ Len(call.arg) > Available(call.before, call.pos)) =>
        ret = Err("UnexpectedEof")

\* C5: in every write_all_at, a write_at step that returns Ok(0) while
\* data remains is reported as an error of kind WriteZero, and of no other
\* kind.
C5_ZeroWriteIsWriteZero ==
    (/\ call.op = "write_all_at"
     /\ Len(call.arg) > 0
     /\ write_at(adapter, call.before, call.pos, call.arg, overflowChecks).ret = Ok(0)) =>
        ret = Err("WriteZero")

(***************************************************************************)
(* The properties of the default loops.                                     *)
(***************************************************************************)
HardError(r) == r.tag = "Err" /\ r.kind # "Interrupted"

\* The bytes transferred by the first k steps of the call
RECURSIVE Transferred(_)
Transferred(k) ==
    IF k = 0 THEN 0
    ELSE Transferred(k - 1) + (IF log[k].res.tag = "Ok" THEN log[k].res.n ELSE 0)

\* The resource after the successful ones of the first k write_at steps
RECURSIVE AppliedWrites(_)
AppliedWrites(k) ==
    IF k = 0 THEN DevInit
    ELSE LET e == log[k]
             prev == AppliedWrites(k - 1)
         IN  IF lp.imp = "dev" /\ e.res.tag = "Ok"
             THEN DevWrite(prev, e.pos, SubSeq(lp.buf, e.off + 1, e.off + e.res.n))
             ELSE prev

\* The caller's buffer after the successful ones of the first k read_at steps
RECURSIVE FilledBuf(_)
FilledBuf(k) ==
    IF k = 0 THEN Fill(Len(lp.buf), BlankByte)
    ELSE LET e == log[k]
             prev == FilledBuf(k - 1)
         IN  IF e.res.tag = "Ok"
             THEN SliceTo(prev, e.off)
                     \o (IF lp.imp = "repeat" THEN Fill(e.res.n, RepeatByte)
                                              ELSE DevRead(DevInit, e.pos, e.res.n))
                     \o SliceFrom(prev, e.off + e.res.n)
             ELSE prev

\* C6: in the default write_all_at and read_exact_at, a step's error of a
\* kind other than Interrupted is the call's result, unchanged; it is the
\* last step the call issues, and what the earlier successful steps wrote
\* to the resource (read into the buffer) stays exactly as they left it.
C6_HardErrorPropagates ==
    \A k \in 1 .. Len(log) :
        HardError(log[k].res) =>
            /\ k = Len(log)
            /\ lp.pc = "done"
            /\ lp.ret = log[k].res
            /\ lp.op = "write_all_at" => dev = AppliedWrites(k - 1)
            /\ lp.op = "read_exact_at" => lp.buf = FilledBuf(k - 1)

\* A write_all_at that wrote part of its data and then failed with
\* PermissionDenied.
C6_Witness ==
    /\ lp.pc = "done"
    /\ lp.op = "write_all_at"
    /\ lp.ret = Err("PermissionDenied")
    /\ Len(log) >= 2
    /\ log[1].res.tag = "Ok"
    /\ dev # DevInit

\* C7: write_all_at on the discard sink returns Ok(()) for every offset
\* and every data length, also when pos + len(data) exceeds u64::MAX.
C7_SinkWriteAllSucceeds ==
    (lp.imp = "sink" /\ lp.pc = "done") => lp.ret = Ok(0)

\* C9: every step of a default loop is issued at the start offset plus the
\* bytes transferred so far, on exactly the rest of the buffer; an
\* Interrupted step is never the call's result; on success the whole
\* buffer was transferred.
C9_StepsAdvanceExactly ==
    /\ \A k \in 1 .. Len(log) :
          LET t == Transferred(k - 1)
          IN  /\ log[k].pos = lp.start + t
              /\ log[k].off = t
              /\ log[k].len = Len(lp.buf) - t
    /\ lp.ret # Err("Interrupted")
    /\ (lp.pc = "done" /\ lp.ret.tag = "Ok") => Transferred(Len(log)) = Len(lp.buf)

(***************************************************************************)
(* The properties of AssertThreadSafe.                                      *)
(***************************************************************************)
\* C8: with one accessor, a completed read_at(pos, buf) returned the bytes
\* the resource held at [pos, pos + n) and a completed write_at(pos, data)
\* put its n bytes at [pos, pos + n), wherever the cursor was left by the
\* calls before it.
C8_SequentialCallsUseOwnOffset ==
    \A t \in DOMAIN th :
        (th[t].pc = "done" /\ th[t].ret.tag = "Ok") =>
            LET c == th[t]
                n == c.ret.n
            IN  IF c.op = "read_at"
                THEN /\ n \in ReadCounts(c.pre, c.pos, c.buf)
                     /\ c.out = SubSeq(c.pre, c.pos + 1, c.pos + n)
                                   \o SliceFrom(c.buf, n)
                     /\ content = c.pre
                ELSE /\ n \in WriteCounts(c.buf)
                     /\ content = IF n = 0 THEN c.pre
                                  ELSE Inner_write(c.pre, c.pos, SliceTo(c.buf, n))

\* A second call that read bytes at an offset other than the one the
\* cursor was left at.
C8_Witness ==
    \E t \in DOMAIN th :
        /\ th[t].pc = "done"
        /\ th[t].calls = 2
        /\ th[t].op = "read_at"
        /\ th[t].ret.tag = "Ok"
        /\ th[t].ret.n > 0
        /\ th[t].was # th[t].pos

\* C10: nothing keeps the two steps of a call together.  While a call is
\* between its seek and its read or write, another accessor's seek is
\* enabled; and a completed call acted at a cursor other than its own
\* offset only if another accessor has issued a call on the wrapped value.
C10_SeekAndOperateNotAtomic ==
    \A t \in DOMAIN th :
        /\ th[t].pc = "seeked" =>
              \A u \in DOMAIN th \ {t} :
                  CanCall(u) => ENABLED (ATS_seek(u) /\ SeekFrame)
        /\ (th[t].pc = "done" /\ th[t].ret.tag = "Ok" /\ th[t].at # th[t].pos) =>
              \E u \in DOMAIN th \ {t} : th[u].calls > 0

\* The first accessor's read_at ran at the offset of the second
\* accessor's call, whose seek fell between its seek and its read, and
\* returned the bytes found there.
C10_Witness ==
    \E t, u \in DOMAIN th :
        /\ t # u
        /\ th[t].pc = "done"
        /\ th[t].op = "read_at"
        /\ th[t].ret.tag = "Ok"
        /\ th[t].ret.n > 0
        /\ th[u].pc = "seeked"
        /\ th[t].at = th[u].pos
        /\ th[t].at # th[t].pos
        /\ th[t].out # SubSeq(content, th[t].pos + 1, th[t].pos + th[t].ret.n)
                          \o SliceFrom(th[t].buf, th[t].ret.n)
        /\ th[t].out = SubSeq(content, th[u].pos + 1, th[u].pos + th[t].ret.n)
                          \o SliceFrom(th[t].buf, th[t].ret.n)

=============================================================================
